---- MODULE Spec2Model ----
(***************************************************************************)
(* Verification model of the flower classifier codec (f_flower.c) and the  *)
(* identifier registry (lib/names.c).                                      *)
(*                                                                         *)
(*   Spec      the rule encoder flower_parse_opt, one action per clause    *)
(*             branch of its loop, and the rule decoder flower_print_opt   *)
(*   SpecMask  __mask_bits applied to bounded mask inputs                  *)
(*   SpecIp    flower_parse_ip_addr followed by flower_print_ip_addr       *)
(*   SpecDb    db_names_alloc, id_to_name and name_to_id                   *)
(*                                                                         *)
(* The host is modelled little-endian: htons/htonl swap bytes and integer  *)
(* payloads are laid out least-significant byte first.                     *)
(***************************************************************************)
EXTENDS Integers, Sequences, FiniteSets, TLC

VARIABLES
  \* flower_parse_opt
  eth_type, vlan_ethtype, ip_proto, flags, n, tail_len, argv, pstate,
  \* flower_print_opt
  tb, out, dstate, reads,
  \* pure-function harness (SpecMask, SpecIp)
  fin, fout, fpc,
  \* names.c
  db, cached, call

encVars  == <<eth_type, vlan_ethtype, ip_proto, flags, n, tail_len, argv, pstate>>
decVars  == <<tb, out, dstate, reads>>
funVars  == <<fin, fout, fpc>>
dbVars   == <<db, cached, call>>
vars     == <<encVars, decVars, funVars, dbVars>>

----------------------------------------------------------------------------
\* Bounds of the model

MaxClauses == 3
MaxLines   == 3

----------------------------------------------------------------------------
\* Program constants

ETH_P_IP     == 2048
ETH_P_IPV6   == 34525
ETH_P_8021Q  == 33024
IPPROTO_TCP  == 6
IPPROTO_UDP  == 17
IPPROTO_SCTP == 132
IP_PROTO_UNSET == 255
ETH_ALEN     == 6
IFNAMSIZ     == 16
AF_INET      == 2
AF_INET6     == 10
TCA_CLS_FLAGS_SKIP_HW == 1
TCA_CLS_FLAGS_SKIP_SW == 2
TCA_OPTIONS  == 2

TCA_FLOWER_CLASSID           == 1
TCA_FLOWER_INDEV             == 2
TCA_FLOWER_ACT               == 3
TCA_FLOWER_KEY_ETH_DST       == 4
TCA_FLOWER_KEY_ETH_DST_MASK  == 5
TCA_FLOWER_KEY_ETH_SRC       == 6
TCA_FLOWER_KEY_ETH_SRC_MASK  == 7
TCA_FLOWER_KEY_ETH_TYPE      == 8
TCA_FLOWER_KEY_IP_PROTO      == 9
TCA_FLOWER_KEY_IPV4_SRC      == 10
TCA_FLOWER_KEY_IPV4_SRC_MASK == 11
TCA_FLOWER_KEY_IPV4_DST      == 12
TCA_FLOWER_KEY_IPV4_DST_MASK == 13
TCA_FLOWER_KEY_IPV6_SRC      == 14
TCA_FLOWER_KEY_IPV6_SRC_MASK == 15
TCA_FLOWER_KEY_IPV6_DST      == 16
TCA_FLOWER_KEY_IPV6_DST_MASK == 17
TCA_FLOWER_KEY_TCP_SRC       == 18
TCA_FLOWER_KEY_TCP_DST       == 19
TCA_FLOWER_KEY_UDP_SRC       == 20
TCA_FLOWER_KEY_UDP_DST       == 21
TCA_FLOWER_FLAGS             == 22
TCA_FLOWER_KEY_VLAN_ID       == 23
TCA_FLOWER_KEY_VLAN_PRIO     == 24
TCA_FLOWER_KEY_VLAN_ETH_TYPE == 25
TCA_FLOWER_KEY_SCTP_SRC      == 41
TCA_FLOWER_KEY_SCTP_DST      == 42
TCA_FLOWER_MAX               == 42

MAX_ENTRIES == 256

----------------------------------------------------------------------------
\* Byte order and payload layout

Pow2(k) == 2 ^ k

\* htons / ntohs on a little-endian host
htons(x) == (x % 256) * 256 + (x \div 256)
ntohs(x) == htons(x)


\* A 32-bit word is held as two 16-bit halves [hi, lo].
W32(hi, lo) == [hi |-> hi, lo |-> lo]
ALL_ONES32  == W32(65535, 65535)
ZERO32      == W32(0, 0)

\* w << s on a 32-bit unsigned word, 0 < s < 32: the bits shifted past
\* bit 31 are lost
Shl32(w, s) ==
  IF s < 16
  THEN W32((w.hi * Pow2(s) + w.lo \div Pow2(16 - s)) % 65536,
           (w.lo * Pow2(s)) % 65536)
  ELSE W32((w.lo * Pow2(s - 16)) % 65536, 0)

\* htonl on a little-endian host
htonl(w) == W32(htons(w.lo), htons(w.hi))

\* memory image of a 32-bit word
W32Bytes(w) == <<w.lo % 256, w.lo \div 256, w.hi % 256, w.hi \div 256>>

\* memory image of an 8-, 16- and 32-bit host integer
U8Bytes(v)  == <<v % 256>>
U16Bytes(v) == <<v % 256, (v \div 256) % 256>>
U32Bytes(v) == <<v % 256, (v \div 256) % 256, (v \div 65536) % 256,
                 (v \div 16777216) % 256>>

\* rta_getattr_u8 / _u16 / _u32 / _be16 read the payload back
rta_getattr_u8(d)   == d[1]
rta_getattr_u16(d)  == d[1] + 256 * d[2]
rta_getattr_u32(d)  == d[1] + 256 * d[2] + 65536 * d[3] + 16777216 * d[4]
rta_getattr_be16(d) == ntohs(rta_getattr_u16(d))

\* RTA_ALIGN(RTA_LENGTH(len)): a 4-byte header, payload, padding to 4
RTA_LENGTH(len) == 4 + len
RTA_ALIGN(len)  == ((len + 3) \div 4) * 4

\* addattr_l / addattr8 / addattr16 / addattr32 append one attribute
addattr_l(msg, type, data) == Append(msg, [type |-> type, data |-> data])
addattr8(msg, type, v)     == addattr_l(msg, type, U8Bytes(v))
addattr16(msg, type, v)    == addattr_l(msg, type, U16Bytes(v))
addattr32(msg, type, v)    == addattr_l(msg, type, U32Bytes(v))

RECURSIVE AttrsSize(_)
AttrsSize(s) == IF s = <<>> THEN 0
                ELSE RTA_ALIGN(RTA_LENGTH(Len(Head(s).data))) + AttrsSize(Tail(s))

----------------------------------------------------------------------------
\* Argument tokens.  A token is [k |-> kind, v |-> number]; the conversion
\* routines of lib/utils.c and lib/ll_*.c are modelled by what they return
\* on each token kind.

Tok(k, v) == [k |-> k, v |-> v]
NoArg     == Tok("none", 0)
BadArg    == Tok("bad", 0)

MacBytes  == <<170, 187, 204, 221, 238, 255>>
V4Bytes   == <<10, 0, 0, 1>>
V6Bytes   == <<32, 1, 13, 184, 0, 0, 0, 0, 0, 0, 0, 0, 0, 0, 0, 1>>
IfName    == <<101, 116, 104, 48>>

\* ll_addr_a2n: a MAC literal gives its six bytes
ll_addr_a2n(str) == IF str.k = "mac" THEN [ret |-> ETH_ALEN, addr |-> MacBytes]
                    ELSE [ret |-> -1, addr |-> <<>>]

\* ll_proto_a2n: "ipv4", "ipv6" or a number, result in network byte order
ll_proto_a2n(str) ==
  CASE str.k = "ipv4" -> [ret |-> 0, proto |-> htons(ETH_P_IP)]
    [] str.k = "ipv6" -> [ret |-> 0, proto |-> htons(ETH_P_IPV6)]
    [] str.k = "num" /\ str.v \in 0..65535 -> [ret |-> 0, proto |-> htons(str.v)]
    [] OTHER -> [ret |-> -1, proto |-> 0]

\* get_u8 / get_u16 / get_be16 / get_tc_classid / get_u32
get_u8(str)   == IF str.k = "num" /\ str.v \in 0..255
                 THEN [ret |-> 0, val |-> str.v] ELSE [ret |-> -1, val |-> 0]
get_u16(str)  == IF str.k = "num" /\ str.v \in 0..65535
                 THEN [ret |-> 0, val |-> str.v] ELSE [ret |-> -1, val |-> 0]
get_be16(str) == IF get_u16(str).ret = 0
                 THEN [ret |-> 0, val |-> htons(get_u16(str).val)]
                 ELSE [ret |-> -1, val |-> 0]
get_tc_classid(str) == IF str.k = "num" THEN [ret |-> 0, val |-> str.v]
                       ELSE [ret |-> -1, val |-> 0]

\* get_prefix: an address literal of the requested family, with an optional
\* "/len"; v = -1 stands for a literal without prefix length
get_prefix(str, family) ==
  LET fam   == IF str.k = "v4" THEN AF_INET ELSE AF_INET6
      bytes == IF str.k = "v4" THEN V4Bytes ELSE V6Bytes
      width == 8 * Len(bytes)
  IN  IF str.k \in {"v4", "v6"} /\ fam = family /\ str.v \in -1..width
      THEN [ret |-> 0, family |-> fam, data |-> bytes, bytelen |-> Len(bytes),
            bitlen |-> IF str.v = -1 THEN width ELSE str.v]
      ELSE [ret |-> -1, family |-> 0, data |-> <<>>, bytelen |-> 0, bitlen |-> 0]

----------------------------------------------------------------------------
\* Rule encoder: the helpers of flower_parse_opt.  Each returns the status
\* and the message as the call leaves it.

AllOnes(len) == [i \in 1..len |-> 255]

\* variant: the mask attribute is left out
flower_parse_eth_addr_nomask(str, addr_type, mask_type, msg) ==
  LET a == ll_addr_a2n(str)
  IN  IF a.ret < 0 THEN [ret |-> -1, n |-> msg]
      ELSE [ret |-> 0, n |-> addattr_l(msg, addr_type, a.addr)]

flower_parse_eth_addr(str, addr_type, mask_type, msg) ==
  LET a == ll_addr_a2n(str)
  IN  IF a.ret < 0 THEN [ret |-> -1, n |-> msg]
      ELSE [ret |-> 0,
            n |-> addattr_l(addattr_l(msg, addr_type, a.addr),
                            mask_type, AllOnes(ETH_ALEN))]

flower_parse_vlan_eth_type(str, etype, type, old, msg) ==
  IF etype # htons(ETH_P_8021Q)
  THEN [ret |-> -1, n |-> msg, vlan_eth_type |-> old]
  ELSE LET p == ll_proto_a2n(str)
       IN  IF p.ret # 0   \* invarg() terminates the program
           THEN [ret |-> -1, n |-> msg, vlan_eth_type |-> old]
           ELSE [ret |-> 0, n |-> addattr16(msg, type, p.proto),
                 vlan_eth_type |-> p.proto]

flower_parse_ip_proto(str, etype, type, old, msg) ==
  IF etype # htons(ETH_P_IP) /\ etype # htons(ETH_P_IPV6)
  THEN [ret |-> -1, n |-> msg, ip_proto |-> old]
  ELSE LET g == get_u8(str)
           r == CASE str.k = "tcp"  -> [ret |-> 0, val |-> IPPROTO_TCP]
                  [] str.k = "udp"  -> [ret |-> 0, val |-> IPPROTO_UDP]
                  [] str.k = "sctp" -> [ret |-> 0, val |-> IPPROTO_SCTP]
                  [] OTHER          -> g
       IN  IF r.ret # 0 THEN [ret |-> -1, n |-> msg, ip_proto |-> old]
           ELSE [ret |-> 0, n |-> addattr8(msg, type, r.val), ip_proto |-> r.val]

\* variant: the shifted group is stored in host byte order
MaskWord_nohtonl(bits) == Shl32(ALL_ONES32, 32 - bits)

\* addr.data[i] <<= 32 - bits; addr.data[i] = htonl(addr.data[i]);
MaskWord(bits) == htonl(Shl32(ALL_ONES32, 32 - bits))

\* the loop of lines 145-155 over the 32-bit groups of addr.data
RECURSIVE MaskWords(_, _, _)
MaskWords(data, i, bits) ==
  IF i > Len(data) THEN data
  ELSE IF bits = 0 THEN MaskWords([data EXCEPT ![i] = ZERO32], i + 1, bits)
  ELSE IF bits \div 32 >= 1 THEN MaskWords(data, i + 1, bits - 32)
  ELSE MaskWords([data EXCEPT ![i] = MaskWord(bits)], i + 1, 0)

\* memory image of an array of 32-bit words
RECURSIVE WordsBytes(_)
WordsBytes(ws) == IF ws = <<>> THEN <<>>
                  ELSE W32Bytes(Head(ws)) \o WordsBytes(Tail(ws))

\* memset(addr.data, 0xff, addr.bytelen) followed by the loop
PrefixMask(bitlen, bytelen) ==
  WordsBytes(MaskWords([i \in 1..(bytelen \div 4) |-> ALL_ONES32], 1, bitlen))

flower_parse_ip_addr(str, etype, addr4_type, mask4_type, addr6_type, mask6_type, msg) ==
  IF etype # htons(ETH_P_IP) /\ etype # htons(ETH_P_IPV6)
  THEN [ret |-> -1, n |-> msg]
  ELSE LET family == IF etype = htons(ETH_P_IP) THEN AF_INET ELSE AF_INET6
           addr   == get_prefix(str, family)
       IN  IF addr.ret # 0 THEN [ret |-> -1, n |-> msg]
           ELSE IF addr.family # family THEN [ret |-> -1, n |-> msg]
           ELSE [ret |-> 0,
                 n |-> addattr_l(
                         addattr_l(msg,
                                   IF addr.family = AF_INET THEN addr4_type
                                                            ELSE addr6_type,
                                   addr.data),
                         IF addr.family = AF_INET THEN mask4_type
                                                  ELSE mask6_type,
                         PrefixMask(addr.bitlen, addr.bytelen))]

\* variant: every protocol other than UDP and SCTP is taken for TCP
flower_port_attr_type_deftcp(ip_port, is_src) ==
  CASE ip_port = IPPROTO_UDP  -> IF is_src THEN TCA_FLOWER_KEY_UDP_SRC
                                           ELSE TCA_FLOWER_KEY_UDP_DST
    [] ip_port = IPPROTO_SCTP -> IF is_src THEN TCA_FLOWER_KEY_SCTP_SRC
                                           ELSE TCA_FLOWER_KEY_SCTP_DST
    [] OTHER -> IF is_src THEN TCA_FLOWER_KEY_TCP_SRC
                          ELSE TCA_FLOWER_KEY_TCP_DST

flower_port_attr_type(ip_port, is_src) ==
  CASE ip_port = IPPROTO_TCP  -> IF is_src THEN TCA_FLOWER_KEY_TCP_SRC
                                           ELSE TCA_FLOWER_KEY_TCP_DST
    [] ip_port = IPPROTO_UDP  -> IF is_src THEN TCA_FLOWER_KEY_UDP_SRC
                                           ELSE TCA_FLOWER_KEY_UDP_DST
    [] ip_port = IPPROTO_SCTP -> IF is_src THEN TCA_FLOWER_KEY_SCTP_SRC
                                           ELSE TCA_FLOWER_KEY_SCTP_DST
    [] OTHER -> -1

\* variant: the attribute is appended before the port number is validated
flower_parse_port_early(str, ip_port, is_src, msg) ==
  LET type == flower_port_attr_type(ip_port, is_src)
      port == get_be16(str)
  IN  IF type < 0 THEN [ret |-> -1, n |-> msg]
      ELSE [ret |-> IF port.ret # 0 THEN -1 ELSE 0,
            n |-> addattr16(msg, type, port.val)]

flower_parse_port(str, ip_port, is_src, msg) ==
  LET type == flower_port_attr_type(ip_port, is_src)
      port == get_be16(str)
  IN  IF type < 0 THEN [ret |-> -1, n |-> msg]
      ELSE IF port.ret # 0 THEN [ret |-> -1, n |-> msg]
      ELSE [ret |-> 0, n |-> addattr16(msg, type, port.val)]

----------------------------------------------------------------------------
\* Rule encoder: flower_parse_opt.  argv is the part of the clause list
\* consumed so far; every clause action consumes the next clause.

Clause(kw, arg) == [kw |-> kw, arg |-> arg]

\* the ethertype handed to the IP-dependent helpers (lines 309, 319, 332)
ActiveEthType == IF vlan_ethtype # 0 THEN vlan_ethtype ELSE eth_type

\* while (argc > 0): the next clause is taken from the command line
Consume(kw, arg) ==
  /\ pstate = "loop"
  /\ Len(argv) < MaxClauses
  /\ argv' = Append(argv, Clause(kw, arg))

\* return -1 (or exit) out of the loop, the message left as it is
Reject == /\ pstate' = "fail"
          /\ UNCHANGED <<eth_type, vlan_ethtype, ip_proto, flags, n, tail_len>>

\* the clause is accepted with message m
Accept(m) == /\ pstate' = "loop"
             /\ n' = m
             /\ UNCHANGED <<eth_type, tail_len>>

\* lines 204-225: the locals are set up (eth_type from tcm_info), the handle
\* is converted, then the options container is opened
ParseBegin(handle, tcm_info) ==
  /\ pstate = "start"
  /\ dstate = "idle"
  /\ eth_type' = tcm_info
  /\ vlan_ethtype' = 0
  /\ ip_proto' = IP_PROTO_UNSET
  /\ flags' = 0
  /\ IF handle.k # "none" /\ handle.k # "num"
     THEN /\ pstate' = "fail"
          /\ UNCHANGED <<n, tail_len>>
     ELSE /\ pstate' = "loop"
          /\ n' = addattr_l(n, TCA_OPTIONS, <<>>)
          /\ tail_len' = RTA_LENGTH(0)
  /\ UNCHANGED argv
  /\ UNCHANGED <<decVars, funVars, dbVars>>

\* "classid" and its alias "flowid"
ParseClassid(arg) ==
  /\ Consume("classid", arg)
  /\ LET h == get_tc_classid(arg)
     IN  IF arg.k = "none" \/ h.ret # 0 THEN Reject
         ELSE /\ Accept(addattr_l(n, TCA_FLOWER_CLASSID, U32Bytes(h.val)))
              /\ UNCHANGED <<vlan_ethtype, ip_proto, flags>>
  /\ UNCHANGED <<decVars, funVars, dbVars>>

ParseSkipHw ==
  /\ Consume("skip_hw", NoArg)
  /\ Accept(n)
  /\ flags' = IF (flags \div TCA_CLS_FLAGS_SKIP_HW) % 2 = 1 THEN flags
              ELSE flags + TCA_CLS_FLAGS_SKIP_HW
  /\ UNCHANGED <<vlan_ethtype, ip_proto>>
  /\ UNCHANGED <<decVars, funVars, dbVars>>

ParseSkipSw ==
  /\ Consume("skip_sw", NoArg)
  /\ Accept(n)
  /\ flags' = IF (flags \div TCA_CLS_FLAGS_SKIP_SW) % 2 = 1 THEN flags
              ELSE flags + TCA_CLS_FLAGS_SKIP_SW
  /\ UNCHANGED <<vlan_ethtype, ip_proto>>
  /\ UNCHANGED <<decVars, funVars, dbVars>>

\* strncpy into a zeroed IFNAMSIZ buffer, then addattrstrz (string and NUL)
ParseIndev(arg) ==
  /\ Consume("indev", arg)
  /\ IF arg.k = "none" THEN Reject
     ELSE /\ Accept(addattr_l(n, TCA_FLOWER_INDEV,
                     SubSeq(IfName, 1, IF Len(IfName) < IFNAMSIZ - 1
                                       THEN Len(IfName) ELSE IFNAMSIZ - 1)
                     \o <<0>>))
          /\ UNCHANGED <<vlan_ethtype, ip_proto, flags>>
  /\ UNCHANGED <<decVars, funVars, dbVars>>

ParseVlanId(arg) ==
  /\ Consume("vlan_id", arg)
  /\ LET vid == get_u16(arg)
     IN  IF arg.k = "none" THEN Reject
         ELSE IF eth_type # htons(ETH_P_8021Q) THEN Reject
         ELSE IF vid.ret < 0 \/ vid.val \div 4096 # 0 THEN Reject
         ELSE /\ Accept(addattr16(n, TCA_FLOWER_KEY_VLAN_ID, vid.val))
              /\ UNCHANGED <<vlan_ethtype, ip_proto, flags>>
  /\ UNCHANGED <<decVars, funVars, dbVars>>

ParseVlanPrio(arg) ==
  /\ Consume("vlan_prio", arg)
  /\ LET prio == get_u8(arg)
     IN  IF arg.k = "none" THEN Reject
         ELSE IF eth_type # htons(ETH_P_8021Q) THEN Reject
         ELSE IF prio.ret < 0 \/ prio.val \div 8 # 0 THEN Reject
         ELSE /\ Accept(addattr8(n, TCA_FLOWER_KEY_VLAN_PRIO, prio.val))
              /\ UNCHANGED <<vlan_ethtype, ip_proto, flags>>
  /\ UNCHANGED <<decVars, funVars, dbVars>>

ParseVlanEthtype(arg) ==
  /\ Consume("vlan_ethtype", arg)
  /\ LET r == flower_parse_vlan_eth_type(arg, eth_type,
                  TCA_FLOWER_KEY_VLAN_ETH_TYPE, vlan_ethtype, n)
     IN  IF arg.k = "none" THEN Reject
         ELSE /\ pstate' = IF r.ret < 0 THEN "fail" ELSE "loop"
              /\ n' = r.n
              /\ vlan_ethtype' = r.vlan_eth_type
              /\ UNCHANGED <<eth_type, ip_proto, flags, tail_len>>
  /\ UNCHANGED <<decVars, funVars, dbVars>>

ParseDstMac(arg) ==
  /\ Consume("dst_mac", arg)
  /\ LET r == flower_parse_eth_addr(arg, TCA_FLOWER_KEY_ETH_DST,
                                    TCA_FLOWER_KEY_ETH_DST_MASK, n)
     IN  IF arg.k = "none" THEN Reject
         ELSE /\ pstate' = IF r.ret < 0 THEN "fail" ELSE "loop"
              /\ n' = r.n
              /\ UNCHANGED <<eth_type, vlan_ethtype, ip_proto, flags, tail_len>>
  /\ UNCHANGED <<decVars, funVars, dbVars>>

ParseSrcMac(arg) ==
  /\ Consume("src_mac", arg)
  /\ LET r == flower_parse_eth_addr(arg, TCA_FLOWER_KEY_ETH_SRC,
                                    TCA_FLOWER_KEY_ETH_SRC_MASK, n)
     IN  IF arg.k = "none" THEN Reject
         ELSE /\ pstate' = IF r.ret < 0 THEN "fail" ELSE "loop"
              /\ n' = r.n
              /\ UNCHANGED <<eth_type, vlan_ethtype, ip_proto, flags, tail_len>>
  /\ UNCHANGED <<decVars, funVars, dbVars>>

ParseIpProto(arg) ==
  /\ Consume("ip_proto", arg)
  /\ LET r == flower_parse_ip_proto(arg, ActiveEthType,
                                    TCA_FLOWER_KEY_IP_PROTO, ip_proto, n)
     IN  IF arg.k = "none" THEN Reject
         ELSE /\ pstate' = IF r.ret < 0 THEN "fail" ELSE "loop"
              /\ n' = r.n
              /\ ip_proto' = r.ip_proto
              /\ UNCHANGED <<eth_type, vlan_ethtype, flags, tail_len>>
  /\ UNCHANGED <<decVars, funVars, dbVars>>

ParseDstIp(arg) ==
  /\ Consume("dst_ip", arg)
  /\ LET r == flower_parse_ip_addr(arg, ActiveEthType,
                  TCA_FLOWER_KEY_IPV4_DST, TCA_FLOWER_KEY_IPV4_DST_MASK,
                  TCA_FLOWER_KEY_IPV6_DST, TCA_FLOWER_KEY_IPV6_DST_MASK, n)
     IN  IF arg.k = "none" THEN Reject
         ELSE /\ pstate' = IF r.ret < 0 THEN "fail" ELSE "loop"
              /\ n' = r.n
              /\ UNCHANGED <<eth_type, vlan_ethtype, ip_proto, flags, tail_len>>
  /\ UNCHANGED <<decVars, funVars, dbVars>>

ParseSrcIp(arg) ==
  /\ Consume("src_ip", arg)
  /\ LET r == flower_parse_ip_addr(arg, ActiveEthType,
                  TCA_FLOWER_KEY_IPV4_SRC, TCA_FLOWER_KEY_IPV4_SRC_MASK,
                  TCA_FLOWER_KEY_IPV6_SRC, TCA_FLOWER_KEY_IPV6_SRC_MASK, n)
     IN  IF arg.k = "none" THEN Reject
         ELSE /\ pstate' = IF r.ret < 0 THEN "fail" ELSE "loop"
              /\ n' = r.n
              /\ UNCHANGED <<eth_type, vlan_ethtype, ip_proto, flags, tail_len>>
  /\ UNCHANGED <<decVars, funVars, dbVars>>

ParseDstPort(arg) ==
  /\ Consume("dst_port", arg)
  /\ LET r == flower_parse_port(arg, ip_proto, FALSE, n)
     IN  IF arg.k = "none" THEN Reject
         ELSE /\ pstate' = IF r.ret < 0 THEN "fail" ELSE "loop"
              /\ n' = r.n
              /\ UNCHANGED <<eth_type, vlan_ethtype, ip_proto, flags, tail_len>>
  /\ UNCHANGED <<decVars, funVars, dbVars>>

ParseSrcPort(arg) ==
  /\ Consume("src_port", arg)
  /\ LET r == flower_parse_port(arg, ip_proto, TRUE, n)
     IN  IF arg.k = "none" THEN Reject
         ELSE /\ pstate' = IF r.ret < 0 THEN "fail" ELSE "loop"
              /\ n' = r.n
              /\ UNCHANGED <<eth_type, vlan_ethtype, ip_proto, flags, tail_len>>
  /\ UNCHANGED <<decVars, funVars, dbVars>>

\* parse_action consumes the action's tokens and appends its attribute
ParseAction(arg) ==
  /\ Consume("action", arg)
  /\ IF arg.k # "act" THEN Reject
     ELSE /\ Accept(addattr_l(n, TCA_FLOWER_ACT, U8Bytes(arg.v)))
          /\ UNCHANGED <<vlan_ethtype, ip_proto, flags>>
  /\ UNCHANGED <<decVars, funVars, dbVars>>

ParseHelp ==
  /\ Consume("help", NoArg)
  /\ Reject
  /\ UNCHANGED <<decVars, funVars, dbVars>>

ParseUnknown ==
  /\ Consume("unknown", NoArg)
  /\ Reject
  /\ UNCHANGED <<decVars, funVars, dbVars>>

\* variant: the ethertype attribute carries the vlan_ethtype when one is set
ParseDone_inner ==
  /\ pstate = "loop"
  /\ pstate' = "done"
  /\ n' = addattr16(addattr32(n, TCA_FLOWER_FLAGS, flags),
                    TCA_FLOWER_KEY_ETH_TYPE, ActiveEthType)
  /\ tail_len' = AttrsSize(n')
  /\ UNCHANGED <<eth_type, vlan_ethtype, ip_proto, flags, argv>>
  /\ UNCHANGED <<decVars, funVars, dbVars>>

\* parse_done: flags, ethertype, then the container length is finalized
ParseDone ==
  /\ pstate = "loop"
  /\ pstate' = "done"
  /\ n' = addattr16(addattr32(n, TCA_FLOWER_FLAGS, flags),
                    TCA_FLOWER_KEY_ETH_TYPE, eth_type)
  /\ tail_len' = AttrsSize(n')
  /\ UNCHANGED <<eth_type, vlan_ethtype, ip_proto, flags, argv>>
  /\ UNCHANGED <<decVars, funVars, dbVars>>

----------------------------------------------------------------------------
\* Rule decoder.  The rendering is a sequence of items [f, v, sfx]: the
\* field name, its value, and what is printed after an address: <<>> for
\* nothing, <<0, bits>> for "/bits", <<1>> \o mask for "/mask".

Item(f, v, sfx) == [f |-> f, v |-> v, sfx |-> sfx]

\* variant: a one-bit after a hole is counted instead of ending the scan
RECURSIVE MaskByte_nohole(_, _, _, _)
MaskByte_nohole(byte, j, bits, hole) ==
  IF j < 0 THEN [ret |-> 0, bits |-> bits, hole |-> hole]
  ELSE IF (byte \div Pow2(j)) % 2 = 1
       THEN MaskByte_nohole(byte, j - 1, bits + 1, hole)
       ELSE IF bits # 0 THEN MaskByte_nohole(byte, j - 1, bits, TRUE)
       ELSE [ret |-> -1, bits |-> bits, hole |-> hole]

\* the inner loop of __mask_bits (j = 7 .. 0) over one byte; ret = -1 is
\* the early return
RECURSIVE MaskByte(_, _, _, _)
MaskByte(byte, j, bits, hole) ==
  IF j < 0 THEN [ret |-> 0, bits |-> bits, hole |-> hole]
  ELSE IF (byte \div Pow2(j)) % 2 = 1
       THEN IF hole THEN [ret |-> -1, bits |-> bits, hole |-> hole]
            ELSE MaskByte(byte, j - 1, bits + 1, hole)
       ELSE IF bits # 0 THEN MaskByte(byte, j - 1, bits, TRUE)
       ELSE [ret |-> -1, bits |-> bits, hole |-> hole]

\* the outer loop of __mask_bits (i = 0 .. len - 1) over the bytes
RECURSIVE MaskBytes(_, _, _, _, _)
MaskBytes(addr, len, i, bits, hole) ==
  IF i >= len THEN bits
  ELSE LET r == MaskByte(addr[i + 1], 7, bits, hole)
       IN  IF r.ret < 0 THEN -1
           ELSE MaskBytes(addr, len, i + 1, r.bits, r.hole)

mask_bits(addr, len) == MaskBytes(addr, len, 0, 0, FALSE)

\* the attribute table: a slot is NULL when the identifier is not in DOMAIN
IsSet(tbl, i) == i \in DOMAIN tbl

\* parse_rtattr_nested: the first attribute of each identifier fills its slot
RECURSIVE parse_rtattr(_, _)
parse_rtattr(tbl, attrs) ==
  IF attrs = <<>> THEN tbl
  ELSE LET a == Head(attrs)
       IN  parse_rtattr(IF a.type <= TCA_FLOWER_MAX /\ ~IsSet(tbl, a.type)
                        THEN tbl @@ (a.type :> a.data) ELSE tbl,
                        Tail(attrs))

EmptyTb == [i \in {} |-> <<>>]

\* variant: a full-width mask is printed as "/bits" too
MaskSuffix_full(mask, len) ==
  LET bits == mask_bits(mask, len)
  IN  IF bits < 0 THEN <<1>> \o mask
      ELSE IF bits <= len * 8 THEN <<0, bits>>
      ELSE <<>>

\* what follows an address whose mask attribute has the expected length
MaskSuffix(mask, len) ==
  LET bits == mask_bits(mask, len)
  IN  IF bits < 0 THEN <<1>> \o mask
      ELSE IF bits < len * 8 THEN <<0, bits>>
      ELSE <<>>

flower_print_eth_addr(name, tbl, addr_type, mask_type) ==
  IF ~IsSet(tbl, addr_type) \/ Len(tbl[addr_type]) # ETH_ALEN THEN <<>>
  ELSE IF ~IsSet(tbl, mask_type) \/ Len(tbl[mask_type]) # ETH_ALEN
  THEN <<Item(name, tbl[addr_type], <<>>)>>
  ELSE <<Item(name, tbl[addr_type], MaskSuffix(tbl[mask_type], ETH_ALEN))>>

\* prints the ethertype and hands it on; 0 when the attribute is absent
flower_print_eth_type(tbl) ==
  IF ~IsSet(tbl, TCA_FLOWER_KEY_ETH_TYPE) THEN [items |-> <<>>, eth_type |-> 0]
  ELSE LET e == rta_getattr_u16(tbl[TCA_FLOWER_KEY_ETH_TYPE])
       IN  [items |-> <<Item("eth_type", <<ntohs(e)>>, <<>>)>>, eth_type |-> e]

\* prints the protocol and hands it on; 0xff when the attribute is absent
flower_print_ip_proto(tbl) ==
  IF ~IsSet(tbl, TCA_FLOWER_KEY_IP_PROTO)
  THEN [items |-> <<>>, ip_proto |-> IP_PROTO_UNSET]
  ELSE LET p == rta_getattr_u8(tbl[TCA_FLOWER_KEY_IP_PROTO])
       IN  [items |-> <<Item("ip_proto", <<p>>, <<>>)>>, ip_proto |-> p]

flower_print_ip_addr(name, etype, tbl, addr4_type, mask4_type, addr6_type, mask6_type) ==
  IF etype # htons(ETH_P_IP) /\ etype # htons(ETH_P_IPV6) THEN <<>>
  ELSE LET v4        == etype = htons(ETH_P_IP)
           addr_type == IF v4 THEN addr4_type ELSE addr6_type
           mask_type == IF v4 THEN mask4_type ELSE mask6_type
           len       == IF v4 THEN 4 ELSE 16
       IN  IF ~IsSet(tbl, addr_type) \/ Len(tbl[addr_type]) # len THEN <<>>
           ELSE IF ~IsSet(tbl, mask_type) \/ Len(tbl[mask_type]) # len
           THEN <<Item(name, tbl[addr_type], <<>>)>>
           ELSE <<Item(name, tbl[addr_type], MaskSuffix(tbl[mask_type], len))>>

\* the indeterminate number an out-of-bounds or NULL read delivers when it
\* does not trap
Indeterminate == -1

\* flower_print_port(f, name, tb[type]): the slot is dereferenced without a
\* test.  A set slot prints its port.  tb[-1] lies outside the table and a
\* NULL slot is dereferenced at address 4: the call traps or prints garbage.
flower_print_port(name, tbl, type) ==
  IF type >= 0 /\ IsSet(tbl, type)
  THEN {[crash |-> FALSE,
         items |-> <<Item(name, <<rta_getattr_be16(tbl[type])>>, <<>>)>>]}
  ELSE {[crash |-> TRUE, items |-> <<>>]}
       \cup {[crash |-> FALSE,
              items |-> <<Item(name, <<Indeterminate>>, <<>>)>>]}

\* lines 529-575: everything printed before the ports
PrintHead(tbl, handle) ==
  LET et == flower_print_eth_type(tbl)
      pr == flower_print_ip_proto(tbl)
  IN  (IF handle # 0 THEN <<Item("handle", <<handle>>, <<>>)>> ELSE <<>>)
      \o (IF IsSet(tbl, TCA_FLOWER_CLASSID)
          THEN <<Item("classid", <<rta_getattr_u32(tbl[TCA_FLOWER_CLASSID])>>, <<>>)>>
          ELSE <<>>)
      \o (IF IsSet(tbl, TCA_FLOWER_INDEV)
          THEN <<Item("indev", tbl[TCA_FLOWER_INDEV], <<>>)>> ELSE <<>>)
      \o (IF IsSet(tbl, TCA_FLOWER_KEY_VLAN_ID)
          THEN <<Item("vlan_id", <<rta_getattr_u16(tbl[TCA_FLOWER_KEY_VLAN_ID])>>, <<>>)>>
          ELSE <<>>)
      \o (IF IsSet(tbl, TCA_FLOWER_KEY_VLAN_PRIO)
          THEN <<Item("vlan_prio", <<rta_getattr_u8(tbl[TCA_FLOWER_KEY_VLAN_PRIO])>>, <<>>)>>
          ELSE <<>>)
      \o flower_print_eth_addr("dst_mac", tbl, TCA_FLOWER_KEY_ETH_DST,
                               TCA_FLOWER_KEY_ETH_DST_MASK)
      \o flower_print_eth_addr("src_mac", tbl, TCA_FLOWER_KEY_ETH_SRC,
                               TCA_FLOWER_KEY_ETH_SRC_MASK)
      \o et.items
      \o pr.items
      \o flower_print_ip_addr("dst_ip", et.eth_type, tbl,
                              TCA_FLOWER_KEY_IPV4_DST, TCA_FLOWER_KEY_IPV4_DST_MASK,
                              TCA_FLOWER_KEY_IPV6_DST, TCA_FLOWER_KEY_IPV6_DST_MASK)
      \o flower_print_ip_addr("src_ip", et.eth_type, tbl,
                              TCA_FLOWER_KEY_IPV4_SRC, TCA_FLOWER_KEY_IPV4_SRC_MASK,
                              TCA_FLOWER_KEY_IPV6_SRC, TCA_FLOWER_KEY_IPV6_SRC_MASK)

\* lines 582-592: flags and the action
PrintTail(tbl) ==
  LET f == IF IsSet(tbl, TCA_FLOWER_FLAGS)
           THEN rta_getattr_u32(tbl[TCA_FLOWER_FLAGS]) ELSE 0
  IN  (IF (f \div TCA_CLS_FLAGS_SKIP_HW) % 2 = 1
       THEN <<Item("skip_hw", <<>>, <<>>)>> ELSE <<>>)
      \o (IF (f \div TCA_CLS_FLAGS_SKIP_SW) % 2 = 1
          THEN <<Item("skip_sw", <<>>, <<>>)>> ELSE <<>>)
      \o (IF IsSet(tbl, TCA_FLOWER_ACT)
          THEN <<Item("action", tbl[TCA_FLOWER_ACT], <<>>)>> ELSE <<>>)

\* the table slots with a fixed index that flower_print_opt reads
FixedSlots ==
  (TCA_FLOWER_CLASSID..TCA_FLOWER_KEY_IPV6_DST_MASK)
  \cup {TCA_FLOWER_FLAGS, TCA_FLOWER_KEY_VLAN_ID, TCA_FLOWER_KEY_VLAN_PRIO}

\* flower_print_opt on the table tbl
flower_print_opt(tbl, handle) ==
  LET proto == flower_print_ip_proto(tbl).ip_proto
      dtype == flower_port_attr_type(proto, FALSE)
      stype == flower_port_attr_type(proto, TRUE)
      head  == PrintHead(tbl, handle)
  IN  \E d \in flower_print_port("dst_port", tbl, dtype) :
        IF d.crash
        THEN /\ dstate' = "crash"
             /\ out' = head
             /\ reads' = FixedSlots \cup {dtype}
        ELSE \E s \in flower_print_port("src_port", tbl, stype) :
               /\ reads' = FixedSlots \cup {dtype, stype}
               /\ IF s.crash
                  THEN /\ dstate' = "crash"
                       /\ out' = head \o d.items
                  ELSE /\ dstate' = "ok"
                       /\ out' = head \o d.items \o s.items \o PrintTail(tbl)

\* the attributes the options container spans once its length is final
RECURSIVE Nested(_, _)
Nested(attrs, len) ==
  IF attrs = <<>> \/ len < RTA_LENGTH(0) THEN <<>>
  ELSE <<Head(attrs)>>
       \o Nested(Tail(attrs),
                 len - RTA_ALIGN(RTA_LENGTH(Len(Head(attrs).data))))

\* decode what the encoder produced (no handle is passed along)
PrintEncoded ==
  /\ pstate = "done"
  /\ dstate = "idle"
  /\ tb' = parse_rtattr(EmptyTb, Nested(Tail(n), tail_len - RTA_LENGTH(0)))
  /\ flower_print_opt(tb', 0)
  /\ UNCHANGED <<encVars, funVars, dbVars>>

\* attribute tables as the kernel may hand them to the decoder
Slot(type, present, data) == IF present THEN (type :> data) ELSE EmptyTb

EthTypeSlots ==
  {EmptyTb} \cup {(TCA_FLOWER_KEY_ETH_TYPE :> U16Bytes(htons(e)))
                  : e \in {ETH_P_IP, ETH_P_IPV6, ETH_P_8021Q}}

IpProtoSlots ==
  {EmptyTb} \cup {(TCA_FLOWER_KEY_IP_PROTO :> U8Bytes(p))
                  : p \in {IPPROTO_TCP, IPPROTO_UDP, IPPROTO_SCTP, 1}}

PortSlots ==
  {EmptyTb,
   (TCA_FLOWER_KEY_TCP_DST :> U16Bytes(htons(80))),
   (TCA_FLOWER_KEY_TCP_DST :> U16Bytes(htons(80)))
     @@ (TCA_FLOWER_KEY_TCP_SRC :> U16Bytes(htons(81))),
   (TCA_FLOWER_KEY_UDP_SRC :> U16Bytes(htons(53))),
   (TCA_FLOWER_KEY_SCTP_DST :> U16Bytes(htons(80)))
     @@ (TCA_FLOWER_KEY_SCTP_SRC :> U16Bytes(htons(81)))}

Ip4Slots ==
  {EmptyTb,
   (TCA_FLOWER_KEY_IPV4_DST :> V4Bytes),
   (TCA_FLOWER_KEY_IPV4_DST :> V4Bytes)
     @@ (TCA_FLOWER_KEY_IPV4_DST_MASK :> <<255, 255, 255, 0>>),
   (TCA_FLOWER_KEY_IPV4_DST :> V4Bytes)
     @@ (TCA_FLOWER_KEY_IPV4_DST_MASK :> <<255, 0, 255, 0>>),
   (TCA_FLOWER_KEY_IPV4_DST :> <<10, 0, 0>>),
   (TCA_FLOWER_KEY_IPV4_DST :> V4Bytes)
     @@ (TCA_FLOWER_KEY_IPV4_DST_MASK :> <<255, 255>>)}

MacSlots ==
  {EmptyTb,
   (TCA_FLOWER_KEY_ETH_SRC :> MacBytes)
     @@ (TCA_FLOWER_KEY_ETH_SRC_MASK :> AllOnes(ETH_ALEN)),
   (TCA_FLOWER_KEY_ETH_SRC :> <<170, 187, 204, 221, 238>>)}

FlagSlots ==
  {EmptyTb} \cup {(TCA_FLOWER_FLAGS :> U32Bytes(f)) : f \in {1, 3}}

Tables ==
  {e @@ p @@ t @@ i @@ m @@ f :
     e \in EthTypeSlots, p \in IpProtoSlots, t \in PortSlots,
     i \in Ip4Slots, m \in MacSlots, f \in FlagSlots}

\* the handle the caller passes to flower_print_opt
Handles == {0, 1}

\* decode a table that did not come from this encoder
PrintTable ==
  /\ pstate = "start"
  /\ dstate = "idle"
  /\ \E tbl \in Tables, handle \in Handles :
       /\ tb' = tbl
       /\ flower_print_opt(tbl, handle)
  /\ UNCHANGED <<encVars, funVars, dbVars>>

\* if (!opt) return 0;
PrintNull ==
  /\ pstate = "start"
  /\ dstate = "idle"
  /\ dstate' = "ok"
  /\ UNCHANGED <<tb, out, reads>>
  /\ UNCHANGED <<encVars, funVars, dbVars>>

----------------------------------------------------------------------------
\* Inputs of the encoder

\* tcm_info protocols: IPv4, IPv6, 802.1Q and one other (ARP, 0x0806)
EthTypes      == {htons(ETH_P_IP), htons(ETH_P_IPV6), htons(ETH_P_8021Q),
                  htons(2054)}
HandleArgs    == {NoArg, Tok("num", 1), BadArg}
ClassidArgs   == {Tok("num", 65537), BadArg}
IndevArgs     == {Tok("dev", 0), NoArg}
VlanIdArgs    == {Tok("num", 5), Tok("num", 4096), NoArg}
VlanPrioArgs  == {Tok("num", 3), Tok("num", 8)}
VlanEthArgs   == {Tok("ipv4", 0), Tok("ipv6", 0), Tok("num", 0), BadArg}
MacArgs       == {Tok("mac", 0), BadArg}
IpProtoArgs   == {Tok("tcp", 0), Tok("udp", 0), Tok("sctp", 0),
                  Tok("num", 1), BadArg}
DstIpArgs     == {Tok("v4", 24), Tok("v6", 64), BadArg}
SrcIpArgs     == {Tok("v4", 0), Tok("v6", -1)}
DstPortArgs   == {Tok("num", 80), BadArg}
SrcPortArgs   == {Tok("num", 81), NoArg}
ActionArgs    == {Tok("act", 1), BadArg}

FunIdle == /\ fin = <<>>
           /\ fout = <<>>
           /\ fpc = "idle"

DbIdle == /\ db = <<>>
          /\ cached = 0
          /\ call = <<>>

EncInit == /\ eth_type = 0
           /\ vlan_ethtype = 0
           /\ ip_proto = 0
           /\ flags = 0
           /\ n = <<>>
           /\ tail_len = 0
           /\ argv = <<>>
           /\ pstate = "start"

DecInit == /\ tb = EmptyTb
           /\ out = <<>>
           /\ dstate = "idle"
           /\ reads = {}

Init == EncInit /\ DecInit /\ FunIdle /\ DbIdle

Next ==
  \/ \E h \in HandleArgs, e \in EthTypes : ParseBegin(h, e)
  \/ \E a \in ClassidArgs : ParseClassid(a)
  \/ ParseSkipHw
  \/ ParseSkipSw
  \/ \E a \in IndevArgs : ParseIndev(a)
  \/ \E a \in VlanIdArgs : ParseVlanId(a)
  \/ \E a \in VlanPrioArgs : ParseVlanPrio(a)
  \/ \E a \in VlanEthArgs : ParseVlanEthtype(a)
  \/ \E a \in MacArgs : ParseDstMac(a)
  \/ \E a \in {Tok("mac", 0)} : ParseSrcMac(a)
  \/ \E a \in IpProtoArgs : ParseIpProto(a)
  \/ \E a \in DstIpArgs : ParseDstIp(a)
  \/ \E a \in SrcIpArgs : ParseSrcIp(a)
  \/ \E a \in DstPortArgs : ParseDstPort(a)
  \/ \E a \in SrcPortArgs : ParseSrcPort(a)
  \/ \E a \in ActionArgs : ParseAction(a)
  \/ ParseHelp
  \/ ParseUnknown
  \/ ParseDone
  \/ PrintEncoded
  \/ PrintTable
  \/ PrintNull

Spec == Init /\ [][Next]_vars

----------------------------------------------------------------------------
\* SpecMask: __mask_bits on masks of 4, 6 and 16 bytes.  The inputs are
\* every prefix mask of every length, and each of them with one bit flipped.

BitOf(addr, k) == (addr[(k \div 8) + 1] \div Pow2(7 - (k % 8))) % 2

\* bit k (MSB first) of the prefix mask of p bits with bit q flipped
FlipBit(p, q, k) == IF k = q THEN (IF k < p THEN 0 ELSE 1)
                    ELSE (IF k < p THEN 1 ELSE 0)

FlipMask(len, p, q) ==
  [i \in 1..len |->
     FlipBit(p, q, 8 * (i - 1)) * 128 + FlipBit(p, q, 8 * (i - 1) + 1) * 64
     + FlipBit(p, q, 8 * (i - 1) + 2) * 32 + FlipBit(p, q, 8 * (i - 1) + 3) * 16
     + FlipBit(p, q, 8 * (i - 1) + 4) * 8 + FlipBit(p, q, 8 * (i - 1) + 5) * 4
     + FlipBit(p, q, 8 * (i - 1) + 6) * 2 + FlipBit(p, q, 8 * (i - 1) + 7)]

MaskLens == {4, ETH_ALEN, 16}

MaskInputs(len) ==
  {[addr |-> FlipMask(len, p, q), len |-> len]
   : p \in 0..(8 * len), q \in -1..(8 * len - 1)}

MaskInit == /\ \E len \in MaskLens : fin \in MaskInputs(len)
            /\ fout = <<>>
            /\ fpc = "mask_in"

MaskBits == /\ fpc = "mask_in"
            /\ fout' = <<mask_bits(fin.addr, fin.len)>>
            /\ fpc' = "mask_out"
            /\ UNCHANGED <<fin, encVars, decVars, dbVars>>

EncIdle == /\ eth_type = 0
           /\ vlan_ethtype = 0
           /\ ip_proto = 0
           /\ flags = 0
           /\ n = <<>>
           /\ tail_len = 0
           /\ argv = <<>>
           /\ pstate = "idle"

InitMask == MaskInit /\ EncIdle /\ DecInit /\ DbIdle

SpecMask == InitMask /\ [][MaskBits]_vars

----------------------------------------------------------------------------
\* SpecIp: flower_parse_ip_addr on "address/p", then flower_print_ip_addr on
\* the two attributes it appended.

IpInputs ==
  {[etype |-> htons(e), str |-> t, is_dst |-> d]
   : e \in {ETH_P_IP, ETH_P_IPV6},
     t \in {Tok("v4", p) : p \in -1..32} \cup {Tok("v6", p) : p \in -1..128},
     d \in BOOLEAN}

IpInit == /\ fin \in IpInputs
          /\ fout = <<>>
          /\ fpc = "ip_in"

Addr4Type(is_dst) == IF is_dst THEN TCA_FLOWER_KEY_IPV4_DST ELSE TCA_FLOWER_KEY_IPV4_SRC
Mask4Type(is_dst) == IF is_dst THEN TCA_FLOWER_KEY_IPV4_DST_MASK ELSE TCA_FLOWER_KEY_IPV4_SRC_MASK
Addr6Type(is_dst) == IF is_dst THEN TCA_FLOWER_KEY_IPV6_DST ELSE TCA_FLOWER_KEY_IPV6_SRC
Mask6Type(is_dst) == IF is_dst THEN TCA_FLOWER_KEY_IPV6_DST_MASK ELSE TCA_FLOWER_KEY_IPV6_SRC_MASK

IpParse ==
  /\ fpc = "ip_in"
  /\ LET r == flower_parse_ip_addr(fin.str, fin.etype,
                  Addr4Type(fin.is_dst), Mask4Type(fin.is_dst),
                  Addr6Type(fin.is_dst), Mask6Type(fin.is_dst), <<>>)
     IN  fout' = [ret |-> r.ret, n |-> r.n, out |-> <<>>]
  /\ fpc' = "ip_parsed"
  /\ UNCHANGED <<fin, encVars, decVars, dbVars>>

IpPrint ==
  /\ fpc = "ip_parsed"
  /\ fout.ret = 0
  /\ fout' = [fout EXCEPT !.out =
               flower_print_ip_addr(IF fin.is_dst THEN "dst_ip" ELSE "src_ip",
                  fin.etype, parse_rtattr(EmptyTb, fout.n),
                  Addr4Type(fin.is_dst), Mask4Type(fin.is_dst),
                  Addr6Type(fin.is_dst), Mask6Type(fin.is_dst))]
  /\ fpc' = "ip_printed"
  /\ UNCHANGED <<fin, encVars, decVars, dbVars>>

InitIp == IpInit /\ EncIdle /\ DecInit /\ DbIdle

NextIp == IpParse \/ IpPrint

SpecIp == InitIp /\ [][NextIp]_vars

----------------------------------------------------------------------------
\* SpecDb: the identifier registry of lib/names.c.  A file is a sequence of
\* lines; read_id_name delivers an id/name pair, or -1 on a line that has
\* none of the accepted forms.

Entry(id, name) == [id |-> id, name |-> name]
NULL            == [b |-> -1, k |-> 0]

Lines ==
  {[kind |-> "pair", id |-> i, name |-> nm] : i \in {1, 2, 257}, nm \in {"a", "b"}}
  \cup {[kind |-> "pair", id |-> -1, name |-> "a"],
        [kind |-> "corrupt", id |-> 0, name |-> ""]}

Files(k) == UNION {[1..m -> Lines] : m \in 0..k}

\* the loop of db_names_alloc from line i on; ok = FALSE is the NULL return,
\* freed is set once db_names_free has released the registry
RECURSIVE LoadLines(_, _, _)
LoadLines(file, i, hash) ==
  IF i > Len(file)
  THEN [ok |-> TRUE, freed |-> FALSE, size |-> MAX_ENTRIES, hash |-> hash]
  ELSE IF file[i].kind = "corrupt"
       THEN [ok |-> FALSE, freed |-> FALSE, size |-> 0, hash |-> <<>>]
  ELSE IF file[i].id < 0 THEN LoadLines(file, i + 1, hash)
  ELSE LET b == file[i].id % MAX_ENTRIES
       IN  LoadLines(file, i + 1,
             [hash EXCEPT ![b] = <<Entry(file[i].id, file[i].name)>> \o hash[b]])

db_names_alloc(file) ==
  LoadLines(file, 1, [b \in 0..(MAX_ENTRIES - 1) |-> <<>>])

\* the entry a pointer refers to
Deref(d, ptr) == d.hash[ptr.b][ptr.k]

\* while (entry && entry->id != id) entry = entry->next;
RECURSIVE ChainFindId(_, _, _)
ChainFindId(chain, k, id) ==
  IF k > Len(chain) THEN 0
  ELSE IF chain[k].id = id THEN k
  ELSE ChainFindId(chain, k + 1, id)

\* while (entry && strcmp(entry->name, name)) entry = entry->next;
RECURSIVE ChainFindName(_, _, _)
ChainFindName(chain, k, name) ==
  IF k > Len(chain) THEN 0
  ELSE IF chain[k].name = name THEN k
  ELSE ChainFindName(chain, k + 1, name)

\* for (i = 0; i < db->size; i++): the loop stops at the first bucket whose
\* chain has the name, i.e. at the least such index
ScanBuckets(d, name) ==
  LET hits == {i \in 0..(d.size - 1) : ChainFindName(d.hash[i], 1, name) # 0}
  IN  IF hits = {} THEN NULL
      ELSE LET i == CHOOSE h \in hits : \A g \in hits : h <= g
           IN  [b |-> i, k |-> ChainFindName(d.hash[i], 1, name)]

QueryNames == {"a", "b", "c"}
QueryIds   == {1, 2, 3, 257, -1}

NoCall == [op |-> "none", name |-> "", id |-> 0, ret |-> 0, out_id |-> 0,
           text |-> "", via |-> "none"]

DbInit == /\ \E file \in Files(MaxLines) : db = db_names_alloc(file)
          /\ cached = NULL
          /\ call = NoCall

\* a lookup on a registry that db_names_free has released reads freed
\* memory.  The call crashes, or it runs on what the memory holds: the
\* chain or scan ends without a match (id_to_name then writes the decimal
\* id and returns NULL, name_to_id returns -1 and leaves *id alone), or it
\* matches a stale entry and answers with that entry's name or id.
UseAfterFree(op, name, id) ==
  LET c == [op |-> op, name |-> name, id |-> id, ret |-> -1,
            out_id |-> call.out_id, text |-> "", via |-> "freed"]
  IN  \/ call' = [c EXCEPT !.via = "crash"]
      \/ /\ op = "id_to_name"
         /\ \/ call' = [c EXCEPT !.text = ToString(id)]
            \/ \E nm \in QueryNames : call' = [c EXCEPT !.ret = 0, !.text = nm]
      \/ /\ op = "name_to_id"
         /\ \/ call' = c
            \/ \E i \in QueryIds : call' = [c EXCEPT !.ret = 0, !.out_id = i]

\* variant: a successful id lookup moves the cache to the entry it found
id_to_name_caching(id) ==
  /\ db.ok
  /\ call.via # "crash"
  /\ IF db.freed
     THEN UseAfterFree("id_to_name", "", id) /\ UNCHANGED cached
     ELSE LET chain == db.hash[id % db.size]
              k     == ChainFindId(chain, 1, id)
          IN  /\ call' = [op |-> "id_to_name", name |-> "", id |-> id,
                          ret |-> IF k # 0 THEN 0 ELSE -1, out_id |-> call.out_id,
                          text |-> IF k # 0 THEN chain[k].name ELSE ToString(id),
                          via |-> "none"]
              /\ cached' = IF k # 0 THEN [b |-> id % db.size, k |-> k] ELSE cached
  /\ UNCHANGED db
  /\ UNCHANGED <<encVars, decVars, funVars>>

\* id_to_name: the name of the id, or its decimal form and a NULL return
id_to_name(id) ==
  /\ db.ok
  /\ call.via # "crash"
  /\ IF db.freed
     THEN UseAfterFree("id_to_name", "", id)
     ELSE LET chain == db.hash[id % db.size]
              k     == ChainFindId(chain, 1, id)
          IN  call' = [op |-> "id_to_name", name |-> "", id |-> id,
                       ret |-> IF k # 0 THEN 0 ELSE -1, out_id |-> call.out_id,
                       text |-> IF k # 0 THEN chain[k].name ELSE ToString(id),
                       via |-> "none"]
  /\ UNCHANGED <<db, cached>>
  /\ UNCHANGED <<encVars, decVars, funVars>>

\* name_to_id: the cached entry first, then the scan; *id is written only
\* on success
name_to_id(name) ==
  /\ db.ok
  /\ call.via # "crash"
  /\ IF db.freed
     THEN UseAfterFree("name_to_id", name, 0) /\ UNCHANGED cached
     ELSE IF cached # NULL /\ Deref(db, cached).name = name
     THEN /\ call' = [op |-> "name_to_id", name |-> name, id |-> 0, ret |-> 0,
                      out_id |-> Deref(db, cached).id, text |-> "",
                      via |-> "cache"]
          /\ UNCHANGED cached
     ELSE LET e == ScanBuckets(db, name)
          IN  IF e # NULL
              THEN /\ cached' = e
                   /\ call' = [op |-> "name_to_id", name |-> name, id |-> 0,
                               ret |-> 0, out_id |-> Deref(db, e).id,
                               text |-> "", via |-> "scan"]
              ELSE /\ UNCHANGED cached
                   /\ call' = [op |-> "name_to_id", name |-> name, id |-> 0,
                               ret |-> -1, out_id |-> call.out_id,
                               text |-> "", via |-> "scan"]
  /\ UNCHANGED db
  /\ UNCHANGED <<encVars, decVars, funVars>>

\* db_names_free: a NULL registry is ignored; otherwise every entry, every
\* name, the bucket array and the registry itself are released, the cache
\* pointer with them.  Releasing a registry twice frees freed memory: the
\* call crashes or goes unnoticed.
db_names_free ==
  /\ call.via # "crash"
  /\ IF ~db.ok
     THEN /\ call' = [NoCall EXCEPT !.op = "db_names_free"]
          /\ UNCHANGED <<db, cached>>
     ELSE IF db.freed
     THEN /\ \E v \in {"crash", "freed"} :
               call' = [NoCall EXCEPT !.op = "db_names_free", !.via = v]
          /\ UNCHANGED <<db, cached>>
     ELSE /\ db' = [db EXCEPT !.freed = TRUE, !.size = 0, !.hash = <<>>]
          /\ cached' = NULL
          /\ call' = [NoCall EXCEPT !.op = "db_names_free"]
  /\ UNCHANGED <<encVars, decVars, funVars>>

DbNext == \/ \E id \in QueryIds : id_to_name(id)
          \/ \E name \in QueryNames : name_to_id(name)
          \/ db_names_free

InitDb == DbInit /\ EncIdle /\ DecInit /\ FunIdle

SpecDb == InitDb /\ [][DbNext]_vars

----------------------------------------------------------------------------
\* Properties of the encoder and the decoder (Spec)

Last(seq)        == seq[Len(seq)]
KwSeen(kw)       == \E i \in 1..Len(argv) : argv[i].kw = kw
Count(attrs, t)  == Cardinality({i \in 1..Len(attrs) : attrs[i].type = t})
Inner(msg)       == IF msg = <<>> THEN <<>> ELSE Tail(msg)
TransportProtos  == {IPPROTO_TCP, IPPROTO_UDP, IPPROTO_SCTP}
IpEthTypes       == {htons(ETH_P_IP), htons(ETH_P_IPV6)}

\* the ethertype in force for the IP clauses: the one of an earlier accepted
\* vlan_ethtype clause, else the outer one
InForceEthType   == IF KwSeen("vlan_ethtype") THEN vlan_ethtype ELSE eth_type

OutOfContext(c) ==
  \/ /\ c.kw \in {"vlan_id", "vlan_prio", "vlan_ethtype"}
     /\ eth_type # htons(ETH_P_8021Q)
  \/ /\ c.kw \in {"ip_proto", "dst_ip", "src_ip"}
     /\ InForceEthType \notin IpEthTypes
  \/ /\ c.kw \in {"dst_port", "src_port"}
     /\ ip_proto \notin TransportProtos

\* C1: a clause that is out of context, the context being what the earlier
\* clauses left (outer ethertype for the VLAN clauses, vlan_ethtype-or-outer
\* ethertype for ip_proto/dst_ip/src_ip, last ip_proto for the ports), makes
\* the parse fail at that clause.
C1_Gating ==
  [][(pstate = "loop" /\ argv' # argv /\ OutOfContext(Last(argv')))
       => pstate' = "fail"]_vars

\* vlan_ethtype ipv4 opened the IP context, dst_ip was accepted in it, and
\* dst_port was rejected for lack of an ip_proto clause
C1_Witness ==
  /\ pstate = "fail"
  /\ Len(argv) = 3
  /\ argv[1] = Clause("vlan_ethtype", Tok("ipv4", 0))
  /\ argv[2].kw = "dst_ip"
  /\ argv[3] = Clause("dst_port", Tok("num", 80))
  /\ Count(Inner(n), TCA_FLOWER_KEY_IPV4_DST) = 1

\* the semantic fields the accepted clauses of argv set
FieldsSet ==
  {[f |-> "dst_mac", v |-> MacBytes] : i \in {j \in 1..Len(argv) : argv[j].kw = "dst_mac"}}
  \cup {[f |-> "src_mac", v |-> MacBytes] : i \in {j \in 1..Len(argv) : argv[j].kw = "src_mac"}}
  \cup {[f |-> argv[i].kw, v |-> IF argv[i].arg.k = "v4" THEN V4Bytes ELSE V6Bytes]
        : i \in {j \in 1..Len(argv) : argv[j].kw \in {"dst_ip", "src_ip"}}}
  \cup {[f |-> argv[i].kw, v |-> <<argv[i].arg.v>>]
        : i \in {j \in 1..Len(argv) : argv[j].kw \in {"dst_port", "src_port"}}}
  \cup {[f |-> "ip_proto",
         v |-> <<CASE argv[i].arg.k = "tcp" -> IPPROTO_TCP
                   [] argv[i].arg.k = "udp" -> IPPROTO_UDP
                   [] argv[i].arg.k = "sctp" -> IPPROTO_SCTP
                   [] OTHER -> argv[i].arg.v>>]
        : i \in {j \in 1..Len(argv) : argv[j].kw = "ip_proto"}}
  \cup {[f |-> argv[i].kw, v |-> <<>>]
        : i \in {j \in 1..Len(argv) : argv[j].kw \in {"skip_hw", "skip_sw"}}}

Rendered == {[f |-> out[i].f, v |-> out[i].v] : i \in 1..Len(out)}

\* C2: decoding what the encoder produced for an accepted clause list
\* completes and renders every address, port, protocol and flag the
\* clauses set, with the value they set.
C2_RoundTrip ==
  (pstate = "done" /\ dstate # "idle")
    => (dstate = "ok" /\ FieldsSet \subseteq Rendered)

\* the port attribute an item of the rendering was read from
PortItemBacked(it) ==
  it.f \in {"dst_port", "src_port"}
    => /\ IsSet(tb, TCA_FLOWER_KEY_IP_PROTO)
       /\ LET t == flower_port_attr_type(rta_getattr_u8(tb[TCA_FLOWER_KEY_IP_PROTO]),
                                         it.f = "src_port")
          IN  t >= 0 /\ IsSet(tb, t)

\* C3: the decoder runs to completion on every table, reads only slots
\* 0..TCA_FLOWER_MAX, and renders a port only from a port attribute that is
\* in the table.
C3_DecoderNeverFails ==
  dstate # "idle"
    => /\ dstate = "ok"
       /\ reads \subseteq 0..TCA_FLOWER_MAX
       /\ \A i \in 1..Len(out) : PortItemBacked(out[i])

\* C7 as stated: after a failed parse the message is what it was before the
\* parse began (empty, no options container)
C7_Original ==
  pstate = "fail" => (n = <<>> /\ tail_len = 0)

\* C7 as amended: the failing clause appends nothing and leaves the
\* container length alone; after a failure the message holds no flags and
\* no ethertype attribute, the container length is not finalized, and the
\* container and the attributes of the clauses accepted earlier are still
\* in the message.
C7_FailLeavesPrefix ==
  /\ [][pstate' = "fail" => (n' = n /\ tail_len' = tail_len)]_vars
  /\ [](pstate = "fail" =>
          /\ Count(Inner(n), TCA_FLOWER_FLAGS) = 0
          /\ Count(Inner(n), TCA_FLOWER_KEY_ETH_TYPE) = 0
          /\ tail_len <= RTA_LENGTH(0)
          /\ (argv # <<>> => /\ n # <<>>
                             /\ n[1].type = TCA_OPTIONS
                             /\ tail_len = RTA_LENGTH(0)
                             /\ (Len(argv) > 1 /\ argv[1].kw \notin {"skip_hw", "skip_sw"}
                                   => Len(n) > 1)))

\* dst_mac was accepted, vlan_id then failed: the container and the two MAC
\* attributes are still in the message
C7_Witness ==
  /\ pstate = "fail"
  /\ Len(argv) = 2
  /\ argv[1].kw = "dst_mac"
  /\ argv[2].kw = "vlan_id"
  /\ Len(n) = 3
  /\ tail_len = RTA_LENGTH(0)

SkipBits == (IF KwSeen("skip_hw") THEN TCA_CLS_FLAGS_SKIP_HW ELSE 0)
            + (IF KwSeen("skip_sw") THEN TCA_CLS_FLAGS_SKIP_SW ELSE 0)

\* the flags and ethertype attributes of a finished message
EmittedOnce(etype) ==
  /\ Count(Inner(n), TCA_FLOWER_FLAGS) = 1
  /\ Count(Inner(n), TCA_FLOWER_KEY_ETH_TYPE) = 1
  /\ n[Len(n) - 1] = [type |-> TCA_FLOWER_FLAGS, data |-> U32Bytes(SkipBits)]
  /\ n[Len(n)] = [type |-> TCA_FLOWER_KEY_ETH_TYPE, data |-> U16Bytes(etype)]

\* C8 as stated: a successful encode ends with one flags attribute holding
\* the OR of the skip bits and one ethertype attribute holding the
\* ethertype in force at the end (vlan_ethtype if set, else outer).
C8_Original ==
  pstate = "done" => EmittedOnce(InForceEthType)

\* C8 as amended: the ethertype attribute holds the outer ethertype, also
\* when a vlan_ethtype clause was accepted.
C8_PostLoop ==
  pstate = "done" => EmittedOnce(eth_type)

\* a finished encode with skip_hw and an accepted vlan_ethtype ipv4
C8_Witness ==
  /\ pstate = "done"
  /\ KwSeen("skip_hw")
  /\ KwSeen("vlan_ethtype")
  /\ vlan_ethtype = htons(ETH_P_IP)
  /\ eth_type = htons(ETH_P_8021Q)

AtMostOnePerId == \A t \in 0..TCA_FLOWER_MAX : Count(Inner(n), t) <= 1

MaskPairs ==
  {<<TCA_FLOWER_KEY_ETH_DST, TCA_FLOWER_KEY_ETH_DST_MASK>>,
   <<TCA_FLOWER_KEY_ETH_SRC, TCA_FLOWER_KEY_ETH_SRC_MASK>>,
   <<TCA_FLOWER_KEY_IPV4_DST, TCA_FLOWER_KEY_IPV4_DST_MASK>>,
   <<TCA_FLOWER_KEY_IPV4_SRC, TCA_FLOWER_KEY_IPV4_SRC_MASK>>,
   <<TCA_FLOWER_KEY_IPV6_DST, TCA_FLOWER_KEY_IPV6_DST_MASK>>,
   <<TCA_FLOWER_KEY_IPV6_SRC, TCA_FLOWER_KEY_IPV6_SRC_MASK>>}

\* some clause that emits an attribute occurs twice in argv
RepeatedClause ==
  \E i, j \in 1..Len(argv) :
     /\ i < j
     /\ argv[i].kw = argv[j].kw
     /\ argv[i].kw \notin {"skip_hw", "skip_sw"}

\* C9 as stated: after any accepted clause list, repeats included, the
\* message holds at most one attribute per identifier.
C9_Original ==
  pstate \in {"loop", "done"} => AtMostOnePerId

\* C9 as amended: the message holds at most one attribute per identifier
\* exactly when no attribute-emitting clause is repeated (a repeated clause
\* appends a further attribute), and in every case as many mask attributes
\* as address attributes of each kind.
C9_OnePerClause ==
  pstate \in {"loop", "done"} =>
    /\ AtMostOnePerId <=> ~RepeatedClause
    /\ \A pr \in MaskPairs : Count(Inner(n), pr[1]) = Count(Inner(n), pr[2])

\* dst_mac twice, accepted: two address and two mask attributes
C9_Witness ==
  /\ pstate = "done"
  /\ Len(argv) = 2
  /\ argv[1].kw = "dst_mac"
  /\ argv[2].kw = "dst_mac"
  /\ Count(Inner(n), TCA_FLOWER_KEY_ETH_DST) = 2
  /\ Count(Inner(n), TCA_FLOWER_KEY_ETH_DST_MASK) = 2

----------------------------------------------------------------------------
\* Properties of __mask_bits (SpecMask)

\* the number of leading one-bits of the input mask, scanned MSB first
LeadingOnes ==
  LET zeros == {k \in 0..(8 * fin.len - 1) : BitOf(fin.addr, k) = 0}
  IN  IF zeros = {} THEN 8 * fin.len
      ELSE CHOOSE k \in zeros : \A z \in zeros : k <= z

\* a one-bit follows a zero-bit
OneAfterZero ==
  \E k \in (LeadingOnes + 1)..(8 * fin.len - 1) : BitOf(fin.addr, k) = 1

\* C4 as stated: the exact bit count for every contiguous mask of 0 to
\* full-width bits (0 for the all-zero mask), -1 for every mask with a
\* one-bit after a zero-bit.
C4_Original ==
  fpc = "mask_out" =>
    fout[1] = IF OneAfterZero THEN -1 ELSE LeadingOnes

\* C4 as amended: the exact bit count for every contiguous mask of 1 to
\* full-width bits; -1 for the all-zero mask and for every mask with a
\* one-bit after a zero-bit.
C4_MaskBits ==
  fpc = "mask_out" =>
    fout[1] = IF OneAfterZero \/ LeadingOnes = 0 THEN -1 ELSE LeadingOnes

\* a 16-byte /64 mask was measured as 64 bits
C4_Witness ==
  /\ fpc = "mask_out"
  /\ fin.len = 16
  /\ LeadingOnes = 64
  /\ ~OneAfterZero
  /\ fout = <<64>>

----------------------------------------------------------------------------
\* Properties of the prefix encoding (SpecIp)

IpWidth  == IF fin.str.k = "v4" THEN 32 ELSE 128
IpPrefix == IF fin.str.v = -1 THEN IpWidth ELSE fin.str.v

\* the mask whose first p bits, in network byte order, are one
RefMask(p, b) ==
  [i \in 1..b |-> IF p >= 8 * i THEN 255
                  ELSE IF p <= 8 * (i - 1) THEN 0
                  ELSE 256 - Pow2(8 * i - p)]

\* C5 as stated: address/p is rendered with "/p" when p is below the full
\* width and without suffix at full width, for every p from 0.
C5_Original ==
  fpc = "ip_printed" =>
    /\ Len(fout.out) = 1
    /\ fout.out[1].sfx = IF IpPrefix < IpWidth THEN <<0, IpPrefix>> ELSE <<>>

\* C5 as amended: "/p" for 1 <= p < width, no suffix at full width, and
\* for p = 0 the raw all-zero mask ("/0.0.0.0", "/::").
C5_PrefixRoundTrip ==
  fpc = "ip_printed" =>
    /\ Len(fout.out) = 1
    /\ fout.out[1].v = (IF fin.str.k = "v4" THEN V4Bytes ELSE V6Bytes)
    /\ fout.out[1].sfx = IF IpPrefix = 0 THEN <<1>> \o RefMask(0, IpWidth \div 8)
                         ELSE IF IpPrefix < IpWidth THEN <<0, IpPrefix>>
                         ELSE <<>>

\* an IPv6 /64 came back as "/64"
C5_Witness ==
  /\ fpc = "ip_printed"
  /\ fin.str = Tok("v6", 64)
  /\ fout.out[1].sfx = <<0, 64>>

\* C6: the mask attribute appended for address/p is the reference mask of
\* p leading one-bits, for every p from 0 to the full width.
C6_PrefixToMask ==
  (fpc \in {"ip_parsed", "ip_printed"} /\ fout.ret = 0) =>
    /\ Len(fout.n) = 2
    /\ fout.n[1].data = (IF fin.str.k = "v4" THEN V4Bytes ELSE V6Bytes)
    /\ fout.n[2].type = (IF fin.str.k = "v4" THEN Mask4Type(fin.is_dst)
                                             ELSE Mask6Type(fin.is_dst))
    /\ fout.n[2].data = RefMask(IpPrefix, IpWidth \div 8)

\* an IPv6 /33: the second group starts with the single byte 0x80
C6_Witness ==
  /\ fpc = "ip_parsed"
  /\ fin.str = Tok("v6", 33)
  /\ fout.ret = 0
  /\ SubSeq(fout.n[2].data, 1, 6) = <<255, 255, 255, 255, 128, 0>>

----------------------------------------------------------------------------
\* Properties of the registry (SpecDb)

\* the positions of all entries of the registry
Positions ==
  UNION {{[b |-> b, k |-> k] : k \in 1..Len(db.hash[b])}
         : b \in 0..(db.size - 1)}

\* the first entry with the name, in bucket order and then chain order
RefLookup(name) ==
  LET pos == {q \in Positions : db.hash[q.b][q.k].name = name}
  IN  IF pos = {} THEN NULL
      ELSE CHOOSE q \in pos :
             \A r \in pos : q.b < r.b \/ (q.b = r.b /\ q.k <= r.k)

CachedValid ==
  \/ cached = NULL
  \/ /\ cached.b \in 0..(db.size - 1)
     /\ cached.k \in 1..Len(db.hash[cached.b])

\* C10: on a loaded registry, until db_names_free releases it, name_to_id
\* answers as a cache-free scan of the buckets in index order would; the
\* cache points at an entry of the registry or nowhere, and only a
\* successful name_to_id changes it (db_names_free releases it with the
\* registry).
C10_CacheTransparent ==
  /\ []((db.ok /\ ~db.freed) =>
          /\ CachedValid
          /\ call.op = "name_to_id" =>
               LET r == RefLookup(call.name)
               IN  /\ call.ret = (IF r = NULL THEN -1 ELSE 0)
                   /\ r # NULL => call.out_id = Deref(db, r).id)
  /\ [][cached' # cached =>
          \/ call'.op = "name_to_id" /\ call'.ret = 0 /\ ~db'.freed
          \/ call'.op = "db_names_free" /\ db'.freed /\ cached' = NULL]_vars

\* a lookup answered from the cache for a name that two ids share
C10_Witness ==
  /\ db.ok
  /\ ~db.freed
  /\ call.op = "name_to_id"
  /\ call.via = "cache"
  /\ call.ret = 0
  /\ Len(db.hash[1]) >= 2
  /\ db.hash[1][1].name = call.name
  /\ db.hash[1][2].name = call.name
  /\ db.hash[1][1].id # db.hash[1][2].id

====
